---- MODULE Spec2Model ----
(***************************************************************************)
(* Backtest engine of the trading-bot dashboard (src/src/backtester.py),   *)
(* driven by a strategy's signal column (src/src/strategies.py).           *)
(*                                                                         *)
(* Numbers: closes are positive integers; capital, returns and equity are  *)
(* exact rationals <<numerator, denominator>> in lowest terms with a       *)
(* positive denominator.  round(x, 2) is modelled by Round2.               *)
(* Optional values (None in the source) are sequences of length 0 or 1.    *)
(*                                                                         *)
(* Regime detector (src/src/regime_detector.py): the indicator library is  *)
(* outside the repository, so what it returns for a history is an input    *)
(* (rta); only its warm-up is modelled: a window of L bars gives no value  *)
(* on the first rows, and nothing at all for a history shorter than L.     *)
(* The windows of 200, 14 and 20 bars are scaled down to SmaLength,        *)
(* AdxWarmup and BBLength.  An undefined number (NaN) is <<>>.             *)
(***************************************************************************)
EXTENDS Integers, Sequences, FiniteSets, TLC

\* ------------------------------------------------------------------ bounds
MaxBars == 3                      \* longest bar history handed to the engine
MaxRuns == 2                      \* calls of run() on one engine instance
MaxRows == 4                      \* longest history handed to the regime detector
MaxSeries == 4                    \* longest history handed to a crossover strategy
MaxVariantBars == 3               \* longest history handed to the other strategies
MaxCalls == 2                     \* method calls on one regime detector
SmaLength == 3                    \* stands for the 200-bar moving average
AdxWarmup == 1                    \* rows without ADX (14-bar window)
BBLength == 2                     \* stands for the 20-bar Bollinger window

\* ------------------------------------------------------- sampled inputs
Closes == {1, 2, 3}               \* close prices of the bars
Signals == {-1, 0, 1}             \* values of the 'signal' column
Commissions == {<<0, 1>>, <<1, 10>>}
InitialCapitals == {<<10000, 1>>}        \* the default initial_capital
Periods == {1, 2, 3}              \* fast_period / slow_period of a crossover
RsiPeriods == {1, 2}              \* period of the RSI
RsiThresholds == {<<30, 70>>, <<70, 30>>}   \* <<buy_threshold, sell_threshold>>
RsiValues == {<<20, 1>>, <<30, 1>>, <<50, 1>>, <<70, 1>>, <<80, 1>>}
BollingerLengths == {2, 3}        \* length of the Bollinger window
BandWidths == {<<1, 2>>, <<2, 1>>}  \* std * deviation of a window that is not flat
RsiLower == 30                    \* default rsi_lower of the band reversion
RsiUpper == 70                    \* default rsi_upper of the band reversion
DonchianLengths == {1, 2}         \* length of the Donchian channel
SuperTrendLengths == {2}          \* length of the SuperTrend
DegeneratePeriods == {0, -1}      \* window lengths no average can have
DegenerateCommissions == {<<1, 1>>, <<-1, 10>>}   \* outside [0, 1)
Dates == {2, 3}                   \* start_date / end_date, when given
None == <<>>

\* -------------------------------------------------------------- rationals
Abs(n) == IF n < 0 THEN -n ELSE n

RECURSIVE Gcd(_, _)
Gcd(a, b) == IF b = 0 THEN a ELSE Gcd(b, a % b)

Norm(n, d) ==
    LET g == Gcd(Abs(n), d) IN <<n \div g, d \div g>>

Rat(n) == <<n, 1>>
RAdd(x, y) == Norm(x[1] * y[2] + y[1] * x[2], x[2] * y[2])
RSub(x, y) == Norm(x[1] * y[2] - y[1] * x[2], x[2] * y[2])
RMul(x, y) == Norm(x[1] * y[1], x[2] * y[2])
RDiv(x, y) ==
    IF y[1] > 0 THEN Norm(x[1] * y[2], x[2] * y[1])
               ELSE Norm(-(x[1] * y[2]), x[2] * (-y[1]))
RGt(x, y) == x[1] * y[2] > y[1] * x[2]

\* round(x, 2): the nearest multiple of 1/100, a tie going to the even one
Round2(x) ==
    LET n == x[1] * 100
        q == n \div x[2]
        r == n - q * x[2]
        up == (2 * r > x[2]) \/ (2 * r = x[2] /\ q % 2 = 1)
    IN  Norm(IF up THEN q + 1 ELSE q, 100)

\* ------------------------------------------------------------------ state
VARIABLES
    df,               \* self.df: the full bar history, <<[time, close], ...>>
    strategy,         \* self.strategy
    initial_capital,  \* self.initial_capital
    commission,       \* self.commission
    start_date,       \* self.start_date (None or <<date>>)
    end_date,         \* self.end_date   (None or <<date>>)
    trades,           \* self.trades
    equity_curve,     \* self.equity_curve
    results,          \* self.results (<<>> is the empty dict)
    df_signals,       \* run(): the signal-annotated, window-filtered frame
    pc,               \* where the engine is: "idle", "loop", "done"
    row,              \* run(): position of the for loop in df_signals
    position,         \* run(): 0 = out, 1 = long
    entry_price,      \* run()
    entry_time,       \* run(): None or <<timestamp>>
    current_capital,  \* run()
    runs,             \* number of run() calls started on this instance
    prev              \* outputs of the previous completed run() (None at first)

\* RegimeDetector
VARIABLES
    rdf,              \* self.df of the detector: rows [time, close, ...columns]
    rta,              \* what the indicator library computes for this history
    rcur,             \* outcome of the last get_current_regime() (None at first)
    rcalls,           \* number of method calls made on the detector
    rfirst            \* the labels the first detect_regime() wrote (None before)

VARIABLES
    sstrategy,        \* a crossover strategy object (None: none constructed)
    sdf,              \* the frame handed to its generate_signals()
    sout              \* outcome of generate_signals() (None: not called yet)

VARIABLES
    bars              \* the caller's bar sequence, as the caller sees it

\* alert_bot.main
VARIABLES
    credentials,      \* TELEGRAM_TOKEN and TELEGRAM_CHAT_ID are both set
    last_actions,     \* main(): last_actions, a dict from asset name to action
    last_market_check, \* main(): time of the last completed market check
    current_time,     \* main(): time.time() read at the top of the iteration
    clock,            \* the wall clock, in seconds
    apc,              \* where main() is: "off", "top", "assets"
    asset,            \* main(): position of the for loop in MONITORED_ASSETS
    status,           \* main(): what get_market_status() last returned
    alert,            \* the change alert the last step handed to
                      \* send_telegram_message (None: none), with its fate
    announced,        \* per asset, the action of its latest change alert
    iterations        \* number of iterations of the while loop started

bvars == <<df, strategy, initial_capital, commission, start_date, end_date,
           trades, equity_curve, results, df_signals, pc, row, position,
           entry_price, entry_time, current_capital, runs, prev>>

dvars == <<rdf, rta, rcur, rcalls, rfirst>>

svars == <<sstrategy, sdf, sout>>

cvars == <<bars>>

avars == <<credentials, last_actions, last_market_check, current_time, clock,
           apc, asset, status, alert, announced, iterations>>

others == <<dvars, svars, avars>>

vars == <<bvars, dvars, svars, cvars, avars>>

config == <<df, strategy, initial_capital, commission, start_date, end_date>>

\* ------------------------------------------------------ the caller's bars
\* faulty variant: the method writes its columns to the frame it was given
CallerFrameAliased(caller, written) == written

\* df = df.copy() / self.df = df.copy(): the columns are written to a copy,
\* so the frame the caller passed in keeps its value
CallerFrame(caller, written) == caller

\* --------------------------------------------------------------- strategies
\* A bar history of n bars: timestamps 1..n ascending, one close each.
CloseSeqs == UNION {[1..n -> Closes] : n \in 0..MaxBars}

Bars(closes) == [k \in 1..Len(closes) |-> [time |-> k, close |-> closes[k]]]

\* faulty variant: only the first bar of the full history carries the Buy
BuyAndHoldFirstBarOnly(d) ==
    [k \in 1..Len(d) |-> [time |-> d[k].time, close |-> d[k].close,
                          signal |-> IF k = 1 THEN 1 ELSE 0]]

\* BuyAndHold.generate_signals: df['signal'] = 1 on a copy of df.
BuyAndHoldSignals(d) ==
    [k \in 1..Len(d) |-> [time |-> d[k].time, close |-> d[k].close, signal |-> 1]]

\* Any other Strategy: a copy of df with the signal column the strategy computed.
ColumnSignals(s, d) ==
    [k \in 1..Len(d) |-> [time |-> d[k].time, close |-> d[k].close,
                          signal |-> s.signal[k]]]

generate_signals(s, d) ==
    IF s.name = "Buy & Hold (Benchmark)" THEN BuyAndHoldSignals(d)
                                         ELSE ColumnSignals(s, d)

Strategies(d) ==
    {[name |-> "Buy & Hold (Benchmark)"]}
    \cup {[name |-> "Strategy", signal |-> s] : s \in [1..Len(d) -> Signals]}

\* ------------------------------------------------------------------ engine
\* faulty variant: the start date is excluded from the window
FilterStartExclusive(d, start) ==
    IF start # None
    THEN LET Keep(b) == b.time > start[1] IN SelectSeq(d, Keep)
    ELSE d

\* df_signals[df_signals.index >= start] and [... <= end], each only if set.
FilterStart(d, start) ==
    IF start # None
    THEN LET Keep(b) == b.time >= start[1] IN SelectSeq(d, Keep)
    ELSE d

\* faulty variant: the end date is excluded from the window
FilterEndExclusive(d, end) ==
    IF end # None
    THEN LET Keep(b) == b.time < end[1] IN SelectSeq(d, Keep)
    ELSE d

FilterEnd(d, end) ==
    IF end # None
    THEN LET Keep(b) == b.time <= end[1] IN SelectSeq(d, Keep)
    ELSE d

\* faulty variant: the simulation starts at the first bar of the history
WindowFromFirstBar(d, start, end) == FilterEnd(d, end)

Window(d, start, end) == FilterEnd(FilterStart(d, start), end)

\* faulty variant: a Buy re-enters while already long
BuyFiresWhileLong(signal, pos) == signal = 1

BuyFires(signal, pos) == signal = 1 /\ pos = 0

SellFires(signal, pos) == signal = -1 /\ pos = 1

\* faulty variant: the exit leg pays no commission
TradeReturnNoExitFee(entry, exit, c) ==
    LET effective_entry == RMul(Rat(entry), RAdd(Rat(1), c))
    IN  RDiv(RSub(Rat(exit), effective_entry), effective_entry)

\* effective_entry, effective_exit and trade_return of a closing trade
TradeReturn(entry, exit, c) ==
    LET effective_entry == RMul(Rat(entry), RAdd(Rat(1), c))
        effective_exit  == RMul(Rat(exit), RSub(Rat(1), c))
    IN  RDiv(RSub(effective_exit, effective_entry), effective_entry)

\* faulty variant: the return is added to the capital as an amount
CapitalPlusReturn(capital, ret) == RAdd(capital, ret)

\* current_capital *= (1 + trade_return)
CapitalAfter(capital, ret) == RMul(capital, RAdd(Rat(1), ret))

\* faulty variant: entry and exit price stored in each other's place
TradeRecordSwapped(etime, xtime, eprice, xprice, ret) ==
    [entry_time |-> etime, exit_time |-> xtime, entry_price |-> xprice,
     exit_price |-> eprice, return |-> ret]

TradeRecord(etime, xtime, eprice, xprice, ret) ==
    [entry_time |-> etime, exit_time |-> xtime, entry_price |-> eprice,
     exit_price |-> xprice, return |-> ret]

\* faulty variant: the forced close is recorded like a normal trade
ForceCloseUntagged(etime, xtime, eprice, xprice, ret) ==
    [entry_time |-> etime, exit_time |-> xtime, entry_price |-> eprice,
     exit_price |-> xprice, return |-> ret]

ForceCloseRecord(etime, xtime, eprice, xprice, ret) ==
    [entry_time |-> etime, exit_time |-> xtime, entry_price |-> eprice,
     exit_price |-> xprice, return |-> ret, type |-> "Force Close"]

IsForceClose(t) == "type" \in DOMAIN t /\ t.type = "Force Close"

\* faulty variant: the open position is carried at cost, not marked to market
EquityAtCost(pos, capital, price, entry) == capital

\* equity of one step of the loop
Equity(pos, capital, price, entry) ==
    IF pos = 1
    THEN LET change == RDiv(Rat(price - entry), Rat(entry))
         IN  RMul(capital, RAdd(Rat(1), change))
    ELSE capital

\* faulty variant: the force close exits at the last row of the full history self.df
LastRowOfHistory(d) == df[Len(df)]

\* the row the force close exits at: df_signals.iloc[-1]
LastRow(d) == d[Len(d)]

SetLast(s, v) == [s EXCEPT ![Len(s)] = v]

\* faulty variant: a trade that breaks even counts as a win
WinningOrEven(ts) == {k \in 1..Len(ts) : ~RGt(Rat(0), ts[k].return)}

Winning(ts) == {k \in 1..Len(ts) : RGt(ts[k].return, Rat(0))}

TotalReturn(capital, initial) ==
    RMul(RDiv(RSub(capital, initial), initial), Rat(100))

WinRate(ts) ==
    IF Len(ts) > 0
    THEN RMul(RDiv(Rat(Cardinality(Winning(ts))), Rat(Len(ts))), Rat(100))
    ELSE Rat(0)

Metrics(capital, initial, ts) ==
    [total_return  |-> Round2(TotalReturn(capital, initial)),
     num_trades    |-> Len(ts),
     win_rate      |-> Round2(WinRate(ts)),
     final_capital |-> Round2(capital)]

\* get_results()
get_results == results

\* get_equity_curve(): pd.Series(self.equity_curve, index=<index of the window>),
\* which raises when the two lengths differ
get_equity_curve ==
    LET idx == Window(generate_signals(strategy, df), start_date, end_date)
    IN  IF Len(equity_curve) = Len(idx)
        THEN [raises |-> FALSE,
              series |-> [k \in 1..Len(idx) |->
                             [index |-> idx[k].time, value |-> equity_curve[k]]]]
        ELSE [raises |-> TRUE]

Outputs == [trades |-> trades, equity_curve |-> equity_curve, results |-> get_results]

\* --------------------------------------------------------- regime detector
NaN == <<>>
RLt(x, y) == RGt(y, x)
RGe(x, y) == ~RGt(y, x)

AdxSideways == 25                 \* below it the trend is weak
AdxLow == 20                      \* breakout warning: ADX below it ...
AdxRising == <<1, 2>>             \* ... and up by more than 0.5 in one bar
SqueezeBandwidth == 5             \* squeeze warning: bandwidth below it

SmaValues == {Rat(2)}
AdxValues == {<<37, 2>>, Rat(19), <<39, 2>>, Rat(20), Rat(25)}
BandwidthValues == {NaN, Rat(4), Rat(5)}

\* ta.sma(close, length=200): no value on the first length-1 rows
TaSma(d, o) ==
    [k \in 1..Len(d) |-> IF k < SmaLength THEN NaN ELSE o.sma[d[k].time]]

\* ta.adx(high, low, close, length=14)['ADX_14']: no value during the warm-up
TaAdx(d, o) ==
    [k \in 1..Len(d) |-> IF k <= AdxWarmup THEN NaN ELSE o.adx[d[k].time]]

\* ta.bbands(close, length=20, std=2.0): None for a history shorter than the
\* window, else a frame whose column BBB_20_2.0 ends with the bandwidth
TaBBands(d, o) ==
    IF Len(d) < BBLength THEN None ELSE <<[bandwidth |-> o.bbw]>>

\* faulty variant: the weak-trend threshold is the breakout one (20)
SidewaysMaskLow(close, sma, adx) ==
    adx # NaN /\ RLt(adx, Rat(AdxLow))

\* the masks of detect_regime, for one row
SidewaysMask(close, sma, adx) ==
    adx # NaN /\ RLt(adx, Rat(AdxSideways))

\* faulty variant: a strength of exactly 25 is not a trend
BullMaskStrict(close, sma, adx) ==
    /\ sma # NaN /\ adx # NaN
    /\ RGt(Rat(close), sma) /\ RGt(adx, Rat(AdxSideways))

BullMask(close, sma, adx) ==
    /\ sma # NaN /\ adx # NaN
    /\ RGt(Rat(close), sma) /\ RGe(adx, Rat(AdxSideways))

\* faulty variant: a strength of exactly 25 is not a trend
BearMaskStrict(close, sma, adx) ==
    /\ sma # NaN /\ adx # NaN
    /\ RLt(Rat(close), sma) /\ RGt(adx, Rat(AdxSideways))

BearMask(close, sma, adx) ==
    /\ sma # NaN /\ adx # NaN
    /\ RLt(Rat(close), sma) /\ RGe(adx, Rat(AdxSideways))

\* 'Unknown', then the three .loc assignments in their order
Regime(close, sma, adx) ==
    LET r0 == "Unknown"
        r1 == IF SidewaysMask(close, sma, adx) THEN "Sideways" ELSE r0
        r2 == IF BullMask(close, sma, adx) THEN "Bull" ELSE r1
    IN  IF BearMask(close, sma, adx) THEN "Bear" ELSE r2

\* the rows of self.df after the indicator and regime columns are written
DetectRows(d, o) ==
    [k \in 1..Len(d) |->
        [time    |-> d[k].time,
         close   |-> d[k].close,
         sma_200 |-> TaSma(d, o)[k],
         adx     |-> TaAdx(d, o)[k],
         regime  |-> Regime(d[k].close, TaSma(d, o)[k], TaAdx(d, o)[k])]]

\* faulty variant: the rows without indicators are dropped from self.df
DetectDropNa(d, o) ==
    LET Full(r) == r.sma_200 # NaN /\ r.adx # NaN
    IN  SelectSeq(DetectRows(d, o), Full)

\* detect_regime(): self.df afterwards (every row is kept)
DetectFrame(d, o) == DetectRows(d, o)

Labels(d) == [k \in 1..Len(d) |-> [time |-> d[k].time, regime |-> d[k].regime]]

\* adx_slope: 0 unless len(self.df) > 2
AdxSlope(d) ==
    IF Len(d) > 2
    THEN IF d[Len(d)].adx = NaN \/ d[Len(d) - 1].adx = NaN
         THEN NaN
         ELSE RSub(d[Len(d)].adx, d[Len(d) - 1].adx)
    ELSE Rat(0)

BreakoutFires(adx, slope) ==
    /\ adx # NaN /\ RLt(adx, Rat(AdxLow))
    /\ slope # NaN /\ RGt(slope, AdxRising)

SqueezeFires(bandwidth) ==
    bandwidth # NaN /\ RLt(bandwidth, Rat(SqueezeBandwidth))

\* f"Volatility Squeeze (Bandwidth: {bandwidth:.2f}%)": the text and the
\* band width it prints, rounded to two decimals
SqueezeWarning(bandwidth) ==
    <<"Volatility Squeeze (Bandwidth: %)", Round2(bandwidth)>>

\* faulty variant: the squeeze check runs first, so the breakout overrides it
WarningBreakoutWins(d, bb) ==
    LET w0 == None
        w1 == IF SqueezeFires(bb[1].bandwidth)
              THEN SqueezeWarning(bb[1].bandwidth) ELSE w0
    IN  IF BreakoutFires(d[Len(d)].adx, AdxSlope(d))
        THEN <<"Potential Breakout (ADX Rising from Low)">> ELSE w1

\* warning = None; breakout check; squeeze check (a later write wins)
Warning(d, bb) ==
    LET w0 == None
        w1 == IF BreakoutFires(d[Len(d)].adx, AdxSlope(d))
              THEN <<"Potential Breakout (ADX Rising from Low)">> ELSE w0
    IN  IF SqueezeFires(bb[1].bandwidth)
        THEN SqueezeWarning(bb[1].bandwidth) ELSE w1

\* get_current_regime() on the detected frame d: the dict it returns, or the
\* exception of self.df.iloc[-1] on no rows / of bb.columns on bb = None
CurrentRegime(d, bb) ==
    IF Len(d) = 0 THEN [raised |-> "IndexError"]
    ELSE IF bb = None THEN [raised |-> "AttributeError"]
    ELSE [raised    |-> "",
          timestamp |-> d[Len(d)].time,
          regime    |-> d[Len(d)].regime,
          price     |-> d[Len(d)].close,
          sma_200   |-> d[Len(d)].sma_200,
          adx       |-> d[Len(d)].adx,
          warning   |-> Warning(d, bb)]

\* the histories a detector is built on, and what the library gives for them
RegimeFrames ==
    UNION {{Bars(c) : c \in [1..n -> Closes]} : n \in 0..MaxRows}

Indicators(d) ==
    [sma : {s \in [1..Len(d) -> SmaValues \cup {NaN}] :
               \A k \in 1..Len(d) : s[k] = NaN <=> k < SmaLength},
     adx : {a \in [1..Len(d) -> AdxValues \cup {NaN}] :
               \A k \in 1..Len(d) : a[k] = NaN <=> k <= AdxWarmup},
     bbw : BandwidthValues]

\* no detector in play
NoDetector ==
    /\ rdf = <<>> /\ rta = <<>> /\ rcur = None /\ rcalls = 0 /\ rfirst = None

\* no engine in play
NoBacktester ==
    /\ df = <<>>
    /\ strategy = [name |-> "Buy & Hold (Benchmark)"]
    /\ initial_capital = Rat(10000)
    /\ commission = Rat(0)
    /\ start_date = None /\ end_date = None
    /\ trades = <<>> /\ equity_curve = <<>> /\ results = <<>>
    /\ df_signals = <<>>
    /\ pc = "off"
    /\ row = 1 /\ position = 0 /\ entry_price = 0 /\ entry_time = None
    /\ current_capital = Rat(0)
    /\ runs = 0 /\ prev = None

\* no crossover strategy in play
NoSignals ==
    /\ sstrategy = None /\ sdf = <<>> /\ sout = None

\* no alert bot in play
NoAlertBot ==
    /\ credentials = FALSE
    /\ last_actions = <<>>
    /\ last_market_check = 0 /\ current_time = 0 /\ clock = 0
    /\ apc = "off"
    /\ asset = 1
    /\ status = None /\ alert = None
    /\ announced = <<>>
    /\ iterations = 0

\* RegimeDetector.__init__
InitRegime ==
    /\ rdf \in RegimeFrames
    /\ rta \in Indicators(rdf)
    /\ rcur = None
    /\ rcalls = 0
    /\ rfirst = None
    /\ NoBacktester
    /\ NoSignals
    /\ bars = rdf
    /\ NoAlertBot

\* detect_regime()
DetectRegime ==
    /\ rcalls < MaxCalls
    /\ rdf' = DetectFrame(rdf, rta)
    /\ rfirst' = IF rfirst = None THEN <<Labels(rdf')>> ELSE rfirst
    /\ rcalls' = rcalls + 1
    /\ bars' = CallerFrame(bars, rdf')
    /\ UNCHANGED <<rta, rcur, bvars, svars, avars>>

\* get_current_regime(): detect_regime(), then the summary of the last row
GetCurrentRegime ==
    /\ rcalls < MaxCalls
    /\ rdf' = DetectFrame(rdf, rta)
    /\ rfirst' = IF rfirst = None THEN <<Labels(rdf')>> ELSE rfirst
    /\ rcur' = <<CurrentRegime(rdf', TaBBands(rdf', rta))>>
    /\ rcalls' = rcalls + 1
    /\ bars' = CallerFrame(bars, rdf')
    /\ UNCHANGED <<rta, bvars, svars, avars>>

NextRegime == DetectRegime \/ GetCurrentRegime

SpecRegime == InitRegime /\ [][NextRegime]_vars

\* ------------------------------------------------- crossover strategies
\* SMACrossover / EMACrossover: the object stores its two periods unchecked
SMACrossover(fast_period, slow_period) ==
    [name |-> "SMA Crossover", fast_period |-> fast_period,
     slow_period |-> slow_period]

EMACrossover(fast_period, slow_period) ==
    [name |-> "EMA Crossover", fast_period |-> fast_period,
     slow_period |-> slow_period]

RECURSIVE SumCloses(_, _, _)
SumCloses(close, a, b) ==
    IF a > b THEN 0 ELSE close[a] + SumCloses(close, a + 1, b)

\* ta.sma(close, length): the mean of the last `length` closes, undefined on
\* the first length - 1 rows; None for a series shorter than the window
TaSmaOf(close, length) ==
    IF Len(close) < length THEN None
    ELSE <<[k \in 1..Len(close) |->
              IF k < length THEN NaN
              ELSE Norm(SumCloses(close, k - length + 1, k), length)]>>

\* ta.ema(close, length): seeded with the mean of the first `length` closes,
\* then ema = alpha * close + (1 - alpha) * ema, alpha = 2 / (length + 1)
RECURSIVE EmaAt(_, _, _)
EmaAt(close, length, k) ==
    IF k < length THEN NaN
    ELSE IF k = length THEN Norm(SumCloses(close, 1, length), length)
    ELSE RAdd(RMul(Norm(2, length + 1), Rat(close[k])),
              RMul(Norm(length - 1, length + 1), EmaAt(close, length, k - 1)))

TaEmaOf(close, length) ==
    IF Len(close) < length THEN None
    ELSE <<[k \in 1..Len(close) |-> EmaAt(close, length, k)]>>

\* series.shift(1)
Shift1(s) == [k \in 1..Len(s) |-> IF k = 1 THEN NaN ELSE s[k - 1]]

\* comparisons of two float columns: False where either side is NaN
ColGt(x, y) == x # NaN /\ y # NaN /\ RGt(x, y)
ColLt(x, y) == x # NaN /\ y # NaN /\ RGt(y, x)
ColGe(x, y) == x # NaN /\ y # NaN /\ ~RGt(y, x)
ColLe(x, y) == x # NaN /\ y # NaN /\ ~RGt(x, y)

\* faulty variant: Buy on every bar where fast is above slow
BullishSustained(fast, slow, k) ==
    ColGt(fast[k], slow[k])

crossover_bullish(fast, slow, k) ==
    ColGt(fast[k], slow[k]) /\ ColLe(Shift1(fast)[k], Shift1(slow)[k])

crossover_bearish(fast, slow, k) ==
    ColLt(fast[k], slow[k]) /\ ColGe(Shift1(fast)[k], Shift1(slow)[k])

\* df['signal'] = 0, then 1 on the bullish rows, then -1 on the bearish ones
CrossoverSignal(fast, slow, k) ==
    LET s0 == 0
        s1 == IF crossover_bullish(fast, slow, k) THEN 1 ELSE s0
    IN  IF crossover_bearish(fast, slow, k) THEN -1 ELSE s1

\* the frame generate_signals returns for the two average columns
CrossoverRows(d, fast, slow) ==
    [k \in 1..Len(d) |->
        [time |-> d[k].time, close |-> d[k].close,
         fast |-> fast[k], slow |-> slow[k],
         signal |-> CrossoverSignal(fast, slow, k)]]

\* a column assigned None (history shorter than the window)
AllNaN(d) == [k \in 1..Len(d) |-> NaN]

\* generate_signals(df) of a crossover strategy: the outcomes it can have.
\* A None column compares as all-NaN or raises TypeError, as the installed
\* pandas decides; on a frame without rows there is nothing to compare.
CrossoverOutcomes(s, d) ==
    LET close == [k \in 1..Len(d) |-> d[k].close]
        Avg(length) == IF s.name = "SMA Crossover" THEN TaSmaOf(close, length)
                                                  ELSE TaEmaOf(close, length)
        f == Avg(s.fast_period)
        w == Avg(s.slow_period)
        fast == IF f = None THEN AllNaN(d) ELSE f[1]
        slow == IF w = None THEN AllNaN(d) ELSE w[1]
        returned == [raised |-> "", rows |-> CrossoverRows(d, fast, slow)]
    IN  IF (f = None \/ w = None) /\ Len(d) > 0
        THEN {returned, [raised |-> "TypeError", rows |-> <<>>]}
        ELSE {returned}

SeriesFrames ==
    UNION {{Bars(c) : c \in [1..n -> Closes]} : n \in 0..MaxSeries}

CrossoverStrategies ==
    {SMACrossover(f, s) : f \in Periods, s \in Periods}
    \cup {EMACrossover(f, s) : f \in Periods, s \in Periods}

\* a crossover strategy constructed, and a frame to hand to it
InitSignals ==
    /\ sstrategy \in {<<s>> : s \in CrossoverStrategies}
    /\ sdf \in SeriesFrames
    /\ sout = None
    /\ NoBacktester
    /\ NoDetector
    /\ bars = sdf
    /\ NoAlertBot

\* strategy.generate_signals(df)
GenerateSignals ==
    /\ sstrategy # None
    /\ sstrategy[1].name \in {"SMA Crossover", "EMA Crossover"}
    /\ sout = None
    /\ sout' \in {<<o>> : o \in CrossoverOutcomes(sstrategy[1], sdf)}
    /\ bars' = CallerFrame(bars, sout'[1].rows)
    /\ UNCHANGED <<sstrategy, sdf, bvars, dvars, avars>>

NextSignals == GenerateSignals

SpecSignals == InitSignals /\ [][NextSignals]_vars

\* ------------------------------------------------- oscillator reversion
\* RSIReversion(period, buy_threshold, sell_threshold)
RSIReversion(period, buy_threshold, sell_threshold) ==
    [name |-> "RSI Reversion", period |-> period,
     buy_threshold |-> buy_threshold, sell_threshold |-> sell_threshold]

\* all closes of rows 1..k are equal: no gain and no loss to average
FlatUpTo(close, k) == \A j \in 1..k : close[j] = close[1]

\* ta.rsi(close, length): what the library can return. None for a series
\* shorter than the window; else a column in [0, 100], undefined on the
\* first `length` rows and wherever gains and losses are both zero (0/0)
TaRsi(close, length) ==
    IF Len(close) < length THEN {None}
    ELSE {<<r>> : r \in
             {c \in [1..Len(close) -> RsiValues \cup {NaN}] :
                 \A k \in 1..Len(close) :
                     c[k] = NaN <=> (k <= length \/ FlatUpTo(close, k))}}

\* faulty variant: the thresholds themselves trigger
RsiSignalInclusive(rsi, s) ==
    LET s0 == 0
        s1 == IF ColLe(rsi, Rat(s.buy_threshold)) THEN 1 ELSE s0
    IN  IF ColGe(rsi, Rat(s.sell_threshold)) THEN -1 ELSE s1

\* df['signal'] = 0; 1 where rsi < buy_threshold; -1 where rsi > sell_threshold
RsiSignal(rsi, s) ==
    LET s0 == 0
        s1 == IF ColLt(rsi, Rat(s.buy_threshold)) THEN 1 ELSE s0
    IN  IF ColGt(rsi, Rat(s.sell_threshold)) THEN -1 ELSE s1

RsiRows(d, rsi, s) ==
    [k \in 1..Len(d) |->
        [time |-> d[k].time, close |-> d[k].close, rsi |-> rsi[k],
         signal |-> RsiSignal(rsi[k], s)]]

\* RSIReversion.generate_signals(df): the outcomes it can have. A None
\* column compares as all-NaN or raises TypeError, as the installed pandas
\* decides.
RsiOutcomes(s, d) ==
    LET close == [k \in 1..Len(d) |-> d[k].close]
    IN  UNION {IF r = None /\ Len(d) = 0
               THEN {[raised |-> "", rows |-> <<>>]}
               ELSE IF r = None
               THEN {[raised |-> "", rows |-> RsiRows(d, AllNaN(d), s)],
                     [raised |-> "TypeError", rows |-> <<>>]}
               ELSE {[raised |-> "", rows |-> RsiRows(d, r[1], s)]}
               : r \in TaRsi(close, s.period)}

RsiStrategies ==
    {RSIReversion(p, t[1], t[2]) : p \in RsiPeriods, t \in RsiThresholds}

RSIGenerate ==
    /\ sstrategy # None
    /\ sstrategy[1].name = "RSI Reversion"
    /\ sout = None
    /\ sout' \in {<<o>> : o \in RsiOutcomes(sstrategy[1], sdf)}
    /\ bars' = CallerFrame(bars, sout'[1].rows)
    /\ UNCHANGED <<sstrategy, sdf, bvars, dvars, avars>>

\* ------------------------------------------------------- band reversion
\* BollingerBandsReversion(length, std, use_rsi, rsi_period, rsi_lower, rsi_upper)
BollingerBandsReversion(length, use_rsi, rsi_period, rsi_lower, rsi_upper) ==
    [name |-> "Bollinger", length |-> length, use_rsi |-> use_rsi,
     rsi_period |-> rsi_period, rsi_lower |-> rsi_lower, rsi_upper |-> rsi_upper]

WindowMean(close, k, length) == Norm(SumCloses(close, k - length + 1, k), length)
FlatWindow(close, k, length) ==
    \A j \in (k - length + 1)..k : close[j] = close[k]

\* ta.bbands(close, length, std): what the library can return. None for a
\* series shorter than the window; else the lower and upper band, undefined
\* on the first length - 1 rows, mean -/+ std * deviation after them (both
\* equal to the close over a flat window)
TaBands(close, length) ==
    IF Len(close) < length THEN {None}
    ELSE {<<[k \in 1..Len(close) |->
               IF k < length THEN [lower |-> NaN, upper |-> NaN]
               ELSE IF FlatWindow(close, k, length)
               THEN [lower |-> Rat(close[k]), upper |-> Rat(close[k])]
               ELSE [lower |-> RSub(WindowMean(close, k, length), w[k]),
                     upper |-> RAdd(WindowMean(close, k, length), w[k])]]>>
          : w \in [1..Len(close) -> BandWidths]}

\* faulty variant: the confirmation is required for the Sell as well
SellConditionAnd(close, upper, rsi, s) ==
    IF s.use_rsi
    THEN ColGt(Rat(close), upper) /\ ColGt(rsi, Rat(s.rsi_upper))
    ELSE ColGt(Rat(close), upper)

buy_condition(close, lower, rsi, s) ==
    IF s.use_rsi
    THEN ColLt(Rat(close), lower) /\ ColLt(rsi, Rat(s.rsi_lower))
    ELSE ColLt(Rat(close), lower)

sell_condition(close, upper, rsi, s) ==
    IF s.use_rsi
    THEN ColGt(Rat(close), upper) \/ ColGt(rsi, Rat(s.rsi_upper))
    ELSE ColGt(Rat(close), upper)

\* df['signal'] = 0; 1 where buy_condition; -1 where sell_condition
BollingerSignal(close, band, rsi, s) ==
    LET s0 == 0
        s1 == IF buy_condition(close, band.lower, rsi, s) THEN 1 ELSE s0
    IN  IF sell_condition(close, band.upper, rsi, s) THEN -1 ELSE s1

BollingerRows(d, bands, rsi, s) ==
    [k \in 1..Len(d) |->
        [time |-> d[k].time, close |-> d[k].close, rsi |-> rsi[k],
         lower |-> bands[k].lower, upper |-> bands[k].upper,
         signal |-> BollingerSignal(d[k].close, bands[k], rsi[k], s)]]

\* BollingerBandsReversion.generate_signals(df): the outcomes it can have.
\* bb = None makes bb.columns raise AttributeError; without confirmation no
\* rsi column is read (NaN stands for the column that is not there)
BollingerOutcomes(s, d) ==
    LET close == [k \in 1..Len(d) |-> d[k].close]
        Rsis == IF s.use_rsi THEN TaRsi(close, s.rsi_period) ELSE {<<AllNaN(d)>>}
    IN  UNION {IF bb = None
               THEN {[raised |-> "AttributeError", rows |-> <<>>]}
               ELSE IF r = None
               THEN {[raised |-> "", rows |-> BollingerRows(d, bb[1], AllNaN(d), s)],
                     [raised |-> "TypeError", rows |-> <<>>]}
               ELSE {[raised |-> "", rows |-> BollingerRows(d, bb[1], r[1], s)]}
               : bb \in TaBands(close, s.length), r \in Rsis}

BollingerStrategies ==
    {BollingerBandsReversion(n, u, 1, RsiLower, RsiUpper) :
        n \in BollingerLengths, u \in BOOLEAN}

BollingerGenerate ==
    /\ sstrategy # None
    /\ sstrategy[1].name = "Bollinger"
    /\ sout = None
    /\ sout' \in {<<o>> : o \in BollingerOutcomes(sstrategy[1], sdf)}
    /\ bars' = CallerFrame(bars, sout'[1].rows)
    /\ UNCHANGED <<sstrategy, sdf, bvars, dvars, avars>>

\* ----------------------------------------------------- channel breakout
DonchianBreakout(length) == [name |-> "Donchian Breakout", length |-> length]

\* bars with low <= close <= high
Candles ==
    {c \in [high : Closes, low : Closes, close : Closes] :
        c.low <= c.close /\ c.close <= c.high}

CandleBars(cs) ==
    [k \in 1..Len(cs) |-> [time |-> k, high |-> cs[k].high, low |-> cs[k].low,
                            close |-> cs[k].close]]

CandleFrames ==
    UNION {{CandleBars(cs) : cs \in [1..n -> Candles]} : n \in 0..MaxVariantBars}

SetMax(S) == CHOOSE x \in S : \A y \in S : y <= x
SetMin(S) == CHOOSE x \in S : \A y \in S : x <= y

\* ta.donchian(high, low, length, length): the highest high and the lowest
\* low of the last `length` rows, undefined on the first length - 1 rows
TaDonchian(d, length) ==
    [k \in 1..Len(d) |->
        IF k < length THEN [upper |-> NaN, lower |-> NaN]
        ELSE [upper |-> Rat(SetMax({d[j].high : j \in (k - length + 1)..k})),
              lower |-> Rat(SetMin({d[j].low : j \in (k - length + 1)..k}))]]

\* faulty variant: the close is compared with the channel of its own bar
DonchianSignalLookAhead(d, ch, k) ==
    LET s0 == 0
        s1 == IF ColGt(Rat(d[k].close), ch[k].upper) THEN 1 ELSE s0
    IN  IF ColLt(Rat(d[k].close), ch[k].lower) THEN -1 ELSE s1

\* df['signal'] = 0; 1 where close > upper.shift(1); -1 where close < lower.shift(1)
DonchianSignal(d, ch, k) ==
    LET upper == [j \in 1..Len(d) |-> ch[j].upper]
        lower == [j \in 1..Len(d) |-> ch[j].lower]
        s0 == 0
        s1 == IF ColGt(Rat(d[k].close), Shift1(upper)[k]) THEN 1 ELSE s0
    IN  IF ColLt(Rat(d[k].close), Shift1(lower)[k]) THEN -1 ELSE s1

DonchianRows(d, ch) ==
    [k \in 1..Len(d) |->
        [time |-> d[k].time, high |-> d[k].high, low |-> d[k].low,
         close |-> d[k].close, upper |-> ch[k].upper, lower |-> ch[k].lower,
         signal |-> DonchianSignal(d, ch, k)]]

\* DonchianBreakout.generate_signals(df): the outcomes it can have. For a
\* history shorter than the channel the library returns an all-NaN channel
\* or None; pd.concat skips None and df[upper_col] then raises KeyError.
DonchianOutcomes(s, d) ==
    IF Len(d) < s.length
    THEN {[raised |-> "",
           rows |-> DonchianRows(d, [k \in 1..Len(d) |->
                                        [upper |-> NaN, lower |-> NaN]])],
          [raised |-> "KeyError", rows |-> <<>>]}
    ELSE {[raised |-> "", rows |-> DonchianRows(d, TaDonchian(d, s.length))]}

DonchianStrategies == {DonchianBreakout(n) : n \in DonchianLengths}

DonchianGenerate ==
    /\ sstrategy # None
    /\ sstrategy[1].name = "Donchian Breakout"
    /\ sout = None
    /\ sout' \in {<<o>> : o \in DonchianOutcomes(sstrategy[1], sdf)}
    /\ bars' = CallerFrame(bars, sout'[1].rows)
    /\ UNCHANGED <<sstrategy, sdf, bvars, dvars, avars>>

\* ------------------------------------------------------------ trend flip
SuperTrendStrategy(length) == [name |-> "SuperTrend", length |-> length]

\* ta.supertrend(high, low, close, length, multiplier): what the library can
\* return for the direction column. None for a history shorter than the
\* window; else 1 (bullish) or -1 (bearish) per row, the rows of the warm-up
\* being all undefined or all 1, as the installed version decides
TaSuperTrend(d, length) ==
    IF Len(d) < length THEN {None}
    ELSE {<<dir>> : dir \in
             {c \in [1..Len(d) -> {Rat(1), Rat(-1), NaN}] :
                 /\ \A k \in 1..Len(d) : k >= length => c[k] # NaN
                 /\ \A k \in 1..Len(d) :
                       k < length => c[k] = c[1] /\ c[k] # Rat(-1)}}

\* (direction == 1) & (direction.shift(1) == -1), and the reverse
TrendBuy(dir, k) == dir[k] = Rat(1) /\ Shift1(dir)[k] = Rat(-1)
TrendSell(dir, k) == dir[k] = Rat(-1) /\ Shift1(dir)[k] = Rat(1)

SuperTrendSignal(dir, k) ==
    LET s0 == 0
        s1 == IF TrendBuy(dir, k) THEN 1 ELSE s0
    IN  IF TrendSell(dir, k) THEN -1 ELSE s1

SuperTrendRows(d, dir) ==
    [k \in 1..Len(d) |->
        [time |-> d[k].time, high |-> d[k].high, low |-> d[k].low,
         close |-> d[k].close, direction |-> dir[k],
         signal |-> SuperTrendSignal(dir, k)]]

\* SuperTrendStrategy.generate_signals(df): st = None makes st.columns raise
SuperTrendOutcomes(s, d) ==
    UNION {IF st = None
           THEN {[raised |-> "AttributeError", rows |-> <<>>]}
           ELSE {[raised |-> "", rows |-> SuperTrendRows(d, st[1])]}
           : st \in TaSuperTrend(d, s.length)}

SuperTrendStrategies == {SuperTrendStrategy(n) : n \in SuperTrendLengths}

SuperTrendGenerate ==
    /\ sstrategy # None
    /\ sstrategy[1].name = "SuperTrend"
    /\ sout = None
    /\ sout' \in {<<o>> : o \in SuperTrendOutcomes(sstrategy[1], sdf)}
    /\ bars' = CallerFrame(bars, sout'[1].rows)
    /\ UNCHANGED <<sstrategy, sdf, bvars, dvars, avars>>

\* ------------------------------------------------ all strategy variants
VariantFrames ==
    UNION {{Bars(c) : c \in [1..n -> Closes]} : n \in 0..MaxVariantBars}

InitVariants ==
    /\ \/ /\ sstrategy \in {<<s>> : s \in CrossoverStrategies \cup RsiStrategies
                                           \cup BollingerStrategies}
          /\ sdf \in VariantFrames
       \/ /\ sstrategy \in {<<s>> : s \in DonchianStrategies \cup SuperTrendStrategies}
          /\ sdf \in CandleFrames
    /\ sout = None
    /\ NoBacktester
    /\ NoDetector
    /\ bars = sdf
    /\ NoAlertBot

NextVariants ==
    \/ GenerateSignals
    \/ RSIGenerate
    \/ BollingerGenerate
    \/ SuperTrendGenerate
    \/ DonchianGenerate

SpecVariants == InitVariants /\ [][NextVariants]_vars

\* ----------------------------------------------------------------- actions
\* Backtester.__init__
Init ==
    /\ \E closes \in CloseSeqs : df = Bars(closes)
    /\ strategy \in Strategies(df)
    /\ initial_capital \in InitialCapitals
    /\ commission \in Commissions
    /\ start_date \in {None} \cup {<<t>> : t \in Dates}
    /\ end_date \in {None} \cup {<<t>> : t \in Dates}
    /\ trades = <<>>
    /\ equity_curve = <<>>
    /\ results = <<>>
    /\ df_signals = <<>>
    /\ pc = "idle"
    /\ row = 1
    /\ position = 0
    /\ entry_price = 0
    /\ entry_time = None
    /\ current_capital = Rat(0)
    /\ runs = 0
    /\ prev = None
    /\ NoDetector
    /\ NoSignals
    /\ bars = df
    /\ NoAlertBot

\* faulty variant: the ledger of the previous run is kept
KeepTrades(ts) == ts

\* run(), up to the for loop: signals on the full history, window, reset
ResetTrades(ts) == <<>>
ResetCurve(ec) == <<>>

RunBegin ==
    /\ pc \in {"idle", "done"}
    /\ runs < MaxRuns
    /\ df_signals' = Window(generate_signals(strategy, df), start_date, end_date)
    /\ position' = 0
    /\ entry_price' = 0
    /\ entry_time' = None
    /\ current_capital' = initial_capital
    /\ trades' = ResetTrades(trades)
    /\ equity_curve' = ResetCurve(equity_curve)
    /\ row' = 1
    /\ pc' = "loop"
    /\ runs' = runs + 1
    /\ prev' = IF pc = "done" THEN <<Outputs>> ELSE prev
    /\ bars' = CallerFrame(bars, generate_signals(strategy, df))
    /\ UNCHANGED <<config, results, others>>

\* one iteration of `for index, row in df_signals.iterrows()`
ProcessBar ==
    /\ pc = "loop"
    /\ row <= Len(df_signals)
    /\ LET signal == df_signals[row].signal
           price  == df_signals[row].close
           index  == df_signals[row].time
       IN  /\ IF BuyFires(signal, position)
              THEN /\ position' = 1
                   /\ entry_price' = price
                   /\ entry_time' = <<index>>
                   /\ UNCHANGED <<current_capital, trades>>
              ELSE IF SellFires(signal, position)
              THEN LET trade_return == TradeReturn(entry_price, price, commission)
                   IN  /\ position' = 0
                       /\ current_capital' = CapitalAfter(current_capital, trade_return)
                       /\ trades' = Append(trades,
                              TradeRecord(entry_time, index, entry_price, price,
                                          trade_return))
                       /\ UNCHANGED <<entry_price, entry_time>>
              ELSE UNCHANGED <<position, entry_price, entry_time,
                               current_capital, trades>>
           /\ equity_curve' = Append(equity_curve,
                  Equity(position', current_capital', price, entry_price'))
    /\ row' = row + 1
    /\ UNCHANGED <<config, results, df_signals, pc, runs, prev, others, bars>>

\* run(), after the loop: force close of an open position, then the metrics
RunEnd ==
    /\ pc = "loop"
    /\ row > Len(df_signals)
    /\ IF position = 1 /\ df_signals # <<>>
       THEN LET exit_price == LastRow(df_signals).close
                exit_time  == LastRow(df_signals).time
                trade_return == TradeReturn(entry_price, exit_price, commission)
            IN  /\ current_capital' = CapitalAfter(current_capital, trade_return)
                /\ trades' = Append(trades,
                       ForceCloseRecord(entry_time, exit_time, entry_price,
                                        exit_price, trade_return))
                /\ equity_curve' = IF equity_curve # <<>>
                                   THEN SetLast(equity_curve, current_capital')
                                   ELSE equity_curve
       ELSE UNCHANGED <<current_capital, trades, equity_curve>>
    /\ results' = <<Metrics(current_capital', initial_capital, trades')>>
    /\ pc' = "done"
    /\ UNCHANGED <<config, df_signals, row, position, entry_price, entry_time,
                   runs, prev, others, bars>>

Next == RunBegin \/ ProcessBar \/ RunEnd

Spec == Init /\ [][Next]_vars

\* Backtester(df, strategy, commission=c) and SMACrossover(f, s) constructed
\* with degenerate arguments: both constructors store what they are given
InitParams ==
    /\ \E closes \in CloseSeqs : df = Bars(closes)
    /\ strategy \in Strategies(df)
    /\ initial_capital \in InitialCapitals
    /\ commission \in DegenerateCommissions
    /\ start_date \in {None} \cup {<<t>> : t \in Dates}
    /\ end_date \in {None} \cup {<<t>> : t \in Dates}
    /\ trades = <<>>
    /\ equity_curve = <<>>
    /\ results = <<>>
    /\ df_signals = <<>>
    /\ pc = "idle"
    /\ row = 1
    /\ position = 0
    /\ entry_price = 0
    /\ entry_time = None
    /\ current_capital = Rat(0)
    /\ runs = 0
    /\ prev = None
    /\ NoDetector
    /\ sstrategy \in {<<SMACrossover(f, s)>> : f \in DegeneratePeriods, s \in {1}}
    /\ sdf = <<>>
    /\ sout = None
    /\ bars = df
    /\ NoAlertBot

SpecParams == InitParams /\ [][Next]_vars

\* ------------------------------------- one bar sequence, three consumers
\* the strategies handed to the engine here: the benchmark and one that
\* alternates Buy and Sell
SharedStrategies(d) ==
    {[name |-> "Buy & Hold (Benchmark)"],
     [name |-> "Strategy",
      signal |-> [k \in 1..Len(d) |-> IF k % 2 = 1 THEN 1 ELSE -1]]}

\* what the indicator library computes here: one ADX level per history
SharedIndicators(d) ==
    {o \in Indicators(d) :
        /\ o.bbw # NaN
        /\ \A j, k \in 1..Len(d) :
              o.adx[j] # NaN /\ o.adx[k] # NaN => o.adx[j] = o.adx[k]}

\* Backtester(bars, strategy), RegimeDetector(bars) and a crossover strategy
\* that will be handed bars, all built over the caller's one bar sequence
InitShared ==
    /\ \E closes \in CloseSeqs : bars = Bars(closes)
    /\ df = bars
    /\ strategy \in SharedStrategies(df)
    /\ initial_capital \in InitialCapitals
    /\ commission = <<1, 10>>
    /\ start_date = None
    /\ end_date = None
    /\ trades = <<>>
    /\ equity_curve = <<>>
    /\ results = <<>>
    /\ df_signals = <<>>
    /\ pc = "idle"
    /\ row = 1
    /\ position = 0
    /\ entry_price = 0
    /\ entry_time = None
    /\ current_capital = Rat(0)
    /\ runs = 0
    /\ prev = None
    /\ rdf = bars
    /\ rta \in SharedIndicators(rdf)
    /\ rcur = None
    /\ rcalls = 0
    /\ rfirst = None
    /\ sstrategy = <<SMACrossover(1, 2)>>
    /\ sdf = bars
    /\ sout = None
    /\ NoAlertBot

NextShared == Next \/ NextRegime \/ NextSignals

SpecShared == InitShared /\ [][NextShared]_vars

\* ------------------------------------------------------------ the alert bot
CHECK_INTERVAL == 3600

\* the names of MONITORED_ASSETS, in order
MONITORED_ASSETS == <<"Bitcoin", "Risky Norris", "Moderate Pitt">>

\* iterations of the while loop a behaviour makes
MaxIterations == 4

\* seconds one iteration takes: time.sleep(5), or an hour of slow polling
Elapsed == {5, 3600}

\* what get_current_regime() reports for the asset
MarketRegimes == {"Bull", "Bear", "Sideways", "Unknown"}

\* where the last close lies against ta.bbands: "none" is no usable frame
BandPositions == {"none", "below", "inside", "above"}

\* get_market_status: the action, from the regime, last sma_7 > sma_30,
\* previous sma_7 <= sma_30 and the position of the close in the bands
MarketAction(regime, fast_above, prev_not_above, band) ==
    IF regime = "Bull"
    THEN IF fast_above
         THEN IF prev_not_above THEN "BUY" ELSE "HOLD"
         ELSE "SELL"
    ELSE IF regime = "Sideways"
    THEN IF band = "below" THEN "BUY"
         ELSE IF band = "above" THEN "SELL"
         ELSE "WAIT"
    ELSE IF regime = "Bear" THEN "CASH"
    ELSE "WAIT"

\* get_market_status(asset) when the loader returned bars: the status dict
MarketStatuses(name) ==
    {[name |-> name, regime |-> g, action |-> MarketAction(g, f, p, b)] :
        <<g, f, p, b>> \in MarketRegimes \X BOOLEAN \X BOOLEAN \X BandPositions}

\* send_telegram_message: what becomes of the message
SendOutcomes(creds) ==
    IF ~creds THEN {"skipped"} ELSE {"delivered", "failed"}

\* last_actions[name] = value
PutAction(actions, name, value) ==
    [n \in DOMAIN actions \cup {name} |-> IF n = name THEN value ELSE actions[n]]

\* if name not in last_actions: last_actions[name] = None
InitAction(actions, name) ==
    IF name \in DOMAIN actions THEN actions ELSE PutAction(actions, name, None)

\* faulty variant: the alert goes out but the action is not recorded
ForgetAction(actions, name, action) == actions

\* last_actions[name] = action, after an alert
RecordAction(actions, name, action) == PutAction(actions, name, <<action>>)

\* main(), before the while loop
InitAlertBot ==
    /\ credentials \in BOOLEAN
    /\ last_actions = <<>>
    /\ last_market_check = 0
    /\ current_time = 0
    /\ clock = CHECK_INTERVAL + 1      \* time.time(): long after the epoch
    /\ apc = "top"
    /\ asset = 1
    /\ status = None
    /\ alert = None
    /\ announced = [n \in {MONITORED_ASSETS[i] : i \in DOMAIN MONITORED_ASSETS}
                      |-> None]
    /\ iterations = 0
    /\ NoBacktester /\ NoDetector /\ NoSignals /\ bars = <<>>

\* top of an iteration whose market check is due
BeginCheck ==
    /\ apc = "top"
    /\ iterations < MaxIterations
    /\ clock - last_market_check > CHECK_INTERVAL
    /\ iterations' = iterations + 1
    /\ current_time' = clock
    /\ apc' = "assets"
    /\ asset' = 1
    /\ alert' = None
    /\ UNCHANGED <<credentials, last_actions, last_market_check, clock, status,
                   announced, bvars, dvars, svars, cvars>>

\* one asset of the for loop
CheckAsset ==
    /\ apc = "assets"
    /\ asset <= Len(MONITORED_ASSETS)
    /\ LET name == MONITORED_ASSETS[asset] IN
       \/ \* no data: get_market_status returns None
          /\ status' = None
          /\ alert' = None
          /\ asset' = asset + 1
          /\ UNCHANGED <<last_actions, announced, apc, clock>>
       \/ \* a status
          \E s \in MarketStatuses(name) :
             LET known == InitAction(last_actions, s.name) IN
             /\ status' = <<s>>
             /\ IF <<s.action>> # known[s.name]
                THEN /\ \E fate \in SendOutcomes(credentials) :
                          alert' = <<[name |-> s.name, action |-> s.action,
                                      fate |-> fate]>>
                     /\ last_actions' = RecordAction(known, s.name, s.action)
                     /\ announced' = [announced EXCEPT ![s.name] = <<s.action>>]
                ELSE /\ alert' = None
                     /\ last_actions' = known
                     /\ UNCHANGED announced
             /\ asset' = asset + 1
             /\ UNCHANGED <<apc, clock>>
       \/ \* get_market_status raises: except, print, time.sleep(10)
          /\ apc' = "top"
          /\ clock' = clock + 10
          /\ alert' = None
          /\ UNCHANGED <<last_actions, announced, status, asset>>
    /\ UNCHANGED <<credentials, last_market_check, current_time, iterations,
                   bvars, dvars, svars, cvars>>

\* after the for loop: the check is stamped, then the rest of the iteration
EndCheck ==
    /\ apc = "assets"
    /\ asset > Len(MONITORED_ASSETS)
    /\ last_market_check' = current_time
    /\ \E e \in Elapsed : clock' = clock + e
    /\ apc' = "top"
    /\ alert' = None
    /\ UNCHANGED <<credentials, last_actions, current_time, asset, status,
                   announced, iterations, bvars, dvars, svars, cvars>>

\* an iteration whose market check is not due
Idle ==
    /\ apc = "top"
    /\ iterations < MaxIterations
    /\ ~(clock - last_market_check > CHECK_INTERVAL)
    /\ iterations' = iterations + 1
    /\ current_time' = clock
    /\ \E e \in Elapsed : clock' = clock + e
    /\ alert' = None
    /\ UNCHANGED <<credentials, last_actions, last_market_check, apc, asset,
                   status, announced, bvars, dvars, svars, cvars>>

NextAlertBot == BeginCheck \/ CheckAsset \/ EndCheck \/ Idle

SpecAlertBot == InitAlertBot /\ [][NextAlertBot]_vars

\* ------------------------------------------------------ notions of the claims
\* The step of the loop that processes the bar at `row`.
BarStep == pc = "loop" /\ row <= Len(df_signals) /\ row' = row + 1
ThisBar == df_signals[row]
Last(s) == s[Len(s)]

\* (P2(1-c) - P1(1+c)) / (P1(1+c)) for c = cn/cd, as one fraction of integers
ReturnFormula(p1, p2, c) ==
    Norm(p2 * (c[2] - c[1]) - p1 * (c[2] + c[1]), p1 * (c[2] + c[1]))

\* The bars of the full history whose timestamp lies in [start_date, end_date].
InWindow(t) ==
    /\ start_date = None \/ t >= start_date[1]
    /\ end_date = None \/ t <= end_date[1]
WindowBars == LET Keep(b) == InWindow(b.time) IN SelectSeq(df, Keep)

\* The Buy that opened the position held just before bar r of the window: the
\* first Buy after the last Sell that closed a position (or after the start).
RECURSIVE OpeningBuy(_)
OpeningBuy(r) ==
    IF r = 0 THEN 0
    ELSE LET o == OpeningBuy(r - 1)
         IN  IF o = 0 THEN (IF df_signals[r].signal = 1 THEN r ELSE 0)
             ELSE IF df_signals[r].signal = -1 THEN 0 ELSE o

\* the signal of the last bar of the window that carries one (0 if none does)
RECURSIVE LastSignal(_)
LastSignal(r) ==
    IF r = 0 THEN 0
    ELSE IF df_signals[r].signal # 0 THEN df_signals[r].signal
    ELSE LastSignal(r - 1)

ForceClosed == {k \in 1..Len(trades) : IsForceClose(trades[k])}

\* Position, entry price and cash after the first r bars of the window, by the
\* transition rules: Buy opens when Flat, Sell closes when Long.
RECURSIVE Replay(_)
Replay(r) ==
    IF r = 0 THEN [position |-> 0, entry |-> 0, capital |-> initial_capital]
    ELSE LET s == Replay(r - 1)
             b == df_signals[r]
         IN  IF b.signal = 1 /\ s.position = 0
             THEN [position |-> 1, entry |-> b.close, capital |-> s.capital]
             ELSE IF b.signal = -1 /\ s.position = 1
             THEN [position |-> 0, entry |-> s.entry,
                   capital |-> RMul(s.capital,
                       RAdd(Rat(1), ReturnFormula(s.entry, b.close, commission)))]
             ELSE s

\* cash if Flat after bar r, capital_at_entry * (1 + (close - entry)/entry) if Long
MarkedEquity(r) ==
    LET s == Replay(r)
    IN  IF s.position = 1
        THEN RMul(s.capital, Norm(df_signals[r].close, s.entry))
        ELSE s.capital

\* the capital realized by closing the position open after bar r at that bar
RealizedAtBar(r) ==
    LET s == Replay(r)
    IN  RMul(s.capital,
             RAdd(Rat(1), ReturnFormula(s.entry, df_signals[r].close, commission)))

\* v is x rounded to two decimals: a multiple of 1/100 at most 1/200 from x
IsRounded2(v, x) ==
    /\ 100 % v[2] = 0
    /\ LET e == RSub(v, x) IN Abs(e[1]) <= e[2] \div 200

Wins == Cardinality({k \in 1..Len(trades) : trades[k].return[1] > 0})

\* (final - initial) / initial * 100
ReturnPct(final) ==
    Norm((final[1] * initial_capital[2] - initial_capital[1] * final[2]) * 100,
         final[2] * initial_capital[1])

\* the signal the strategy gives bar k of the full history
SignalOf(k) == generate_signals(strategy, df)[k].signal
AllNone == \A k \in 1..Len(df) : InWindow(df[k].time) => SignalOf(k) = 0

\* -------------------------------------------------------------------- claims
\* C1: a Buy processed while Flat opens the position at that bar's close and
\* timestamp; a Buy processed while Long changes neither the position, the
\* entry price, the entry time, the capital nor the ledger.
C1_BuyOnlyWhenFlat ==
    [][BarStep /\ ThisBar.signal = 1 =>
         IF position = 0
         THEN /\ position' = 1
              /\ entry_price' = ThisBar.close
              /\ entry_time' = <<ThisBar.time>>
         ELSE UNCHANGED <<position, entry_price, entry_time, current_capital,
                          trades>>]_vars

\* two Buys in a row were processed; the position is the one the first opened
C1_Witness ==
    /\ pc = "loop" /\ row = 3
    /\ df_signals[1].signal = 1 /\ df_signals[2].signal = 1
    /\ df_signals[1].close # df_signals[2].close
    /\ position = 1 /\ entry_time = <<df_signals[1].time>>

\* C2: a Sell processed while Long closes the position and appends exactly one
\* record: entry time and price of the opening Buy, exit time and price of
\* this bar; a Sell processed while Flat leaves ledger, capital and position.
C2_SellOnlyWhenLong ==
    [][BarStep /\ ThisBar.signal = -1 =>
         IF position = 1
         THEN /\ position' = 0
              /\ Len(trades') = Len(trades) + 1
              /\ SubSeq(trades', 1, Len(trades)) = trades
              /\ LET t == Last(trades')
                      o == OpeningBuy(row - 1)
                  IN  /\ o > 0
                      /\ t.entry_time = <<df_signals[o].time>>
                      /\ t.entry_price = df_signals[o].close
                      /\ t.exit_time = ThisBar.time
                      /\ t.exit_price = ThisBar.close
                      /\ ~IsForceClose(t)
         ELSE UNCHANGED <<position, current_capital, trades>>]_vars

\* Buy, Buy, Sell at three different closes, then the Sell closed the trade
\* opened by the first Buy
C2_Witness ==
    /\ pc = "loop" /\ row = 4 /\ position = 0 /\ Len(trades) = 1
    /\ df_signals[1].signal = 1 /\ df_signals[2].signal = 1
    /\ df_signals[3].signal = -1
    /\ trades[1].entry_price # trades[1].exit_price
    /\ trades[1].entry_price # df_signals[2].close

\* C3: every record appended to the ledger carries the return
\* (P2(1-c) - P1(1+c)) / (P1(1+c)) of its own prices, and the close multiplies
\* the capital by (1 + return).
C3_CommissionFormula ==
    [][Len(trades') = Len(trades) + 1 =>
         LET t == Last(trades')
         IN  /\ t.return = ReturnFormula(t.entry_price, t.exit_price, commission)
             /\ RDiv(current_capital', current_capital) = RAdd(Rat(1), t.return)
      ]_vars

\* a run with commission that closed one trade by a Sell and one by force
C3_Witness ==
    /\ pc = "done" /\ Len(trades) = 2 /\ commission # Rat(0)
    /\ ~IsForceClose(trades[1]) /\ IsForceClose(trades[2])
    /\ trades[1].return # trades[2].return

\* C4: a position still open after the last bar of the window is closed at
\* the close and timestamp of the last bar inside the window, with the
\* commission formula, in a record tagged forced-close, and the last equity
\* value becomes the capital realized by that close.
C4_ForceCloseAtWindowEnd ==
    pc = "done" /\ position = 1 =>
        /\ WindowBars # <<>> /\ trades # <<>> /\ equity_curve # <<>>
        /\ LET t == Last(trades)
                b == Last(WindowBars)
            IN  /\ IsForceClose(t)
                /\ t.exit_time = b.time
                /\ t.exit_price = b.close
                /\ t.entry_time = entry_time
                /\ t.entry_price = entry_price
                /\ t.return = ReturnFormula(entry_price, b.close, commission)
        /\ Last(equity_curve) = current_capital

\* a forced close in a window that ends before the history does, at another close
C4_Witness ==
    /\ pc = "done" /\ position = 1 /\ end_date # None
    /\ Len(df) > end_date[1]
    /\ Last(df).close # Last(trades).exit_price
    /\ commission # Rat(0)

\* C5: at the end of run(), if the last signal of the window is a Buy, exactly
\* one record is tagged forced-close, it is the last one and exits at the
\* close of the window's final bar; if the run ends Flat no record is tagged.
C5_ForceCloseRecord ==
    pc = "done" =>
        /\ LastSignal(Len(df_signals)) = 1 =>
               /\ ForceClosed = {Len(trades)}
               /\ trades # <<>>
               /\ Last(trades).exit_price = Last(df_signals).close
        /\ position = 0 => ForceClosed = {}
        /\ position = 0 <=> LastSignal(Len(df_signals)) # 1

\* Buy, Sell, Buy: one normal record, then the forced close
C5_Witness ==
    /\ pc = "done" /\ Len(trades) = 2 /\ ForceClosed = {2}
    /\ LastSignal(Len(df_signals)) = 1


\* C6 (as claimed): after run() there is one equity value per bar of the
\* window, each the cash if Flat after the bar and the commission-free mark
\* capital_at_entry * (1 + (close - entry_price)/entry_price) if Long.
C6_AsClaimed ==
    pc = "done" =>
        /\ Len(equity_curve) = Len(WindowBars)
        /\ \A k \in 1..Len(equity_curve) : equity_curve[k] = MarkedEquity(k)

\* C6 (amended): one equity value per bar of the window, in bar order; each
\* is the cash if Flat after the bar and the commission-free mark if Long,
\* except the last one of a run that ends Long, which is the capital realized
\* by the forced close.
C6_EquityCurve ==
    /\ pc = "loop" =>
           /\ Len(equity_curve) = row - 1
           /\ \A k \in 1..Len(equity_curve) : equity_curve[k] = MarkedEquity(k)
    /\ pc = "done" =>
           /\ ~get_equity_curve.raises
           /\ LET series == get_equity_curve.series
                  n == Len(WindowBars)
              IN  /\ Len(series) = n
                  /\ \A k \in 1..n :
                        /\ series[k].index = WindowBars[k].time
                        /\ series[k].value =
                               IF k = n /\ Replay(n).position = 1
                               THEN RealizedAtBar(n)
                               ELSE MarkedEquity(k)

\* a run with commission that held a position over a price change and ended
\* Long, so that the last value is not the unrealized mark
C6_Witness ==
    /\ pc = "done" /\ commission # Rat(0) /\ Len(equity_curve) = 3
    /\ Replay(3).position = 1
    /\ Replay(2).position = 1 /\ equity_curve[2] # Replay(2).capital
    /\ equity_curve[3] # MarkedEquity(3)

\* C7 (as claimed): total_return_pct is exactly (final - initial)/initial*100,
\* for the final capital the engine holds or the one it reports, and
\* win_rate_pct exactly 100 * wins / trade_count (0 for an empty ledger).
C7_AsClaimed ==
    pc = "done" =>
        LET r == results[1]
        IN  /\ r.num_trades = Len(trades)
            /\ \/ r.total_return = ReturnPct(current_capital)
               \/ r.total_return = ReturnPct(r.final_capital)
            /\ r.win_rate = IF Len(trades) = 0 THEN Rat(0)
                                               ELSE Norm(100 * Wins, Len(trades))

\* C7 (amended): trade_count is the length of the ledger; total_return_pct,
\* win_rate_pct and final_capital are the claimed values rounded to two
\* decimals, the return being taken from the unrounded final capital;
\* win_rate_pct is 0 for an empty ledger.
C7_Metrics ==
    pc = "done" =>
        LET r == results[1]
        IN  /\ r.num_trades = Len(trades)
            /\ IsRounded2(r.total_return, ReturnPct(current_capital))
            /\ IsRounded2(r.final_capital, current_capital)
            /\ IF Len(trades) = 0
               THEN r.win_rate = Rat(0)
               ELSE IsRounded2(r.win_rate, Norm(100 * Wins, Len(trades)))

\* two trades, one of them won, and a return that needed rounding
C7_Witness ==
    /\ pc = "done" /\ Len(trades) = 2 /\ Wins = 1
    /\ results[1].win_rate = Rat(50)
    /\ results[1].total_return # ReturnPct(current_capital)

\* C8 (as claimed): Buy-and-Hold at commission 0 over a non-empty window
\* reports final capital = initial_capital * close[tN] / close[t0].
C8_AsClaimed ==
    (/\ pc = "done" /\ strategy.name = "Buy & Hold (Benchmark)"
     /\ commission = Rat(0) /\ WindowBars # <<>>) =>
        results[1].final_capital =
            RMul(initial_capital, Norm(Last(WindowBars).close, WindowBars[1].close))

\* C8 (amended): Buy-and-Hold at commission 0 over a non-empty window ends
\* with capital initial_capital * close[tN] / close[t0], and reports it
\* rounded to two decimals.
C8_BuyAndHoldConservation ==
    (/\ pc = "done" /\ strategy.name = "Buy & Hold (Benchmark)"
     /\ commission = Rat(0) /\ WindowBars # <<>>) =>
        LET exact == RMul(initial_capital,
                          Norm(Last(WindowBars).close, WindowBars[1].close))
        IN  /\ current_capital = exact
            /\ IsRounded2(results[1].final_capital, exact)

\* Buy-and-Hold from the second bar of the history, at a price ratio with a
\* non-terminating decimal expansion
C8_Witness ==
    /\ pc = "done" /\ strategy.name = "Buy & Hold (Benchmark)"
    /\ commission = Rat(0) /\ Len(WindowBars) = 2 /\ start_date # None
    /\ WindowBars[1].close = 3 /\ WindowBars[2].close # 3
    /\ WindowBars[1].close # df[1].close
    /\ results[1].final_capital # current_capital

\* C9: every run() starts Flat with capital = initial_capital, an empty
\* ledger and an empty equity curve, and a run() repeated on the same engine
\* produces the ledger, equity curve and metrics of the run before it.
C9_RunsIndependent ==
    /\ pc = "loop" /\ row = 1 =>
           /\ position = 0 /\ entry_time = None
           /\ current_capital = initial_capital
           /\ trades = <<>> /\ equity_curve = <<>>
    /\ pc = "done" /\ prev # None => Outputs = prev[1]

\* the second run of an engine whose runs trade
C9_Witness ==
    /\ pc = "done" /\ runs = 2 /\ prev # None
    /\ Len(trades) = 2 /\ Len(equity_curve) = 3

C11_InclusiveWindow ==
    pc \in {"loop", "done"} =>
        /\ Len(df_signals) = Len(WindowBars)
        /\ \A k \in 1..Len(df_signals) :
              LET t == WindowBars[k].time
              IN  /\ df_signals[k].time = t
                  /\ df_signals[k].close = df[t].close
                  /\ df_signals[k].signal = SignalOf(t)
                  /\ k > 1 => df_signals[k - 1].time < t
        /\ \A k \in 1..Len(df) :
              InWindow(df[k].time) <=>
                  \E j \in 1..Len(df_signals) : df_signals[j].time = df[k].time
        /\ Len(equity_curve) = (IF pc = "done" THEN Len(df_signals) ELSE row - 1)

\* a finished run over the window [2, 3] of a three-bar history whose first
\* bar carries another signal than its second
C11_Witness ==
    /\ pc = "done" /\ Len(df) = 3
    /\ start_date = <<2>> /\ end_date = <<3>>
    /\ strategy.name = "Strategy" /\ SignalOf(1) # SignalOf(2)
    /\ Len(df_signals) = 2 /\ df_signals[1].signal = SignalOf(2)

\* --------------------------------------------- claims on the regime detector
Detected == rfirst # None
RegimeLabels == {"Bull", "Bear", "Sideways", "Unknown"}
Strong(r) == r.adx # NaN /\ ~RGt(Rat(25), r.adx)
Weak(r) == r.adx # NaN /\ RGt(Rat(25), r.adx)

\* C12 (as claimed): every bar on which the strength or the direction
\* indicator is undefined is labelled Unknown.
C12_AsClaimed ==
    Detected =>
        \A k \in 1..Len(rdf) :
            rdf[k].adx = NaN \/ rdf[k].sma_200 = NaN => rdf[k].regime = "Unknown"

\* C13: every bar whose strength indicator is defined and below 25 is
\* labelled Sideways, whatever the direction indicator (defined or not) and
\* the close are.
C13_WeakIsSideways ==
    Detected =>
        \A k \in 1..Len(rdf) : Weak(rdf[k]) => rdf[k].regime = "Sideways"

\* a weak bar above its defined moving average, and a weak bar without one
C13_Witness ==
    /\ Detected /\ Len(rdf) = 4
    /\ Weak(rdf[2]) /\ rdf[2].sma_200 = NaN
    /\ Weak(rdf[4]) /\ rdf[4].sma_200 # NaN /\ RGt(Rat(rdf[4].close), rdf[4].sma_200)

\* C14: with both indicators defined and strength >= 25 a bar is Bull if its
\* close is above the direction indicator, Bear if below, Unknown if equal.
C14_TrendDirection ==
    Detected =>
        \A k \in 1..Len(rdf) :
            Strong(rdf[k]) /\ rdf[k].sma_200 # NaN =>
                rdf[k].regime =
                    IF RGt(Rat(rdf[k].close), rdf[k].sma_200) THEN "Bull"
                    ELSE IF RGt(rdf[k].sma_200, Rat(rdf[k].close)) THEN "Bear"
                    ELSE "Unknown"

\* a strong bar above and a strong bar exactly on the moving average
C14_Witness ==
    /\ Detected /\ Len(rdf) = 4
    /\ rdf[3].adx = Rat(25) /\ rdf[3].regime = "Bull"
    /\ rdf[4].adx = Rat(25) /\ rdf[4].sma_200 = Rat(rdf[4].close)
    /\ rdf[4].regime = "Unknown"

\* C15 (as claimed): every bar has one of the four labels, and Unknown only
\* where the strength or the direction indicator is undefined.
C15_AsClaimed ==
    Detected =>
        \A k \in 1..Len(rdf) :
            /\ rdf[k].regime \in RegimeLabels
            /\ rdf[k].regime = "Unknown" =>
                   rdf[k].adx = NaN \/ rdf[k].sma_200 = NaN

\* C15 (amended): every bar has one of the four labels, and Unknown only
\* where the strength or the direction indicator is undefined, or where the
\* close equals the direction indicator exactly at strength >= 25.
C15_OneLabelPerBar ==
    Detected =>
        /\ Len(rfirst[1]) = Len(rdf)
        /\ \A k \in 1..Len(rdf) :
              /\ rdf[k].regime \in RegimeLabels
              /\ rdf[k].regime = "Unknown" =>
                     \/ rdf[k].adx = NaN
                     \/ rdf[k].sma_200 = NaN
                     \/ Strong(rdf[k]) /\ rdf[k].sma_200 = Rat(rdf[k].close)

\* all four labels in one history, the Unknown bars being a warm-up bar and
\* a strong bar exactly on its moving average
C15_Witness ==
    /\ Detected /\ Len(rdf) = 4
    /\ rdf[1].regime = "Unknown" /\ rdf[2].regime = "Sideways"
    /\ rdf[3].regime = "Unknown" /\ rdf[3].sma_200 # NaN /\ rdf[3].adx # NaN
    /\ rdf[4].regime = "Bear"

\* C16: whatever is called again on the detector, every bar keeps the label
\* the first detect_regime() gave it.
C16_DetectIdempotent ==
    Detected => Labels(rdf) = rfirst[1]

\* a second call on a detector whose first run labelled a trend
C16_Witness ==
    /\ rcalls = 2 /\ Detected /\ Len(rdf) = 4
    /\ rdf[3].regime = "Bull" /\ rdf[4].regime = "Sideways"
    /\ rcur # None

\* the one-period change of the strength indicator on the last bar exceeds 0.5
RisingAdx ==
    /\ Len(rdf) >= 2
    /\ rdf[Len(rdf)].adx # NaN /\ rdf[Len(rdf) - 1].adx # NaN
    /\ RGt(RSub(rdf[Len(rdf)].adx, rdf[Len(rdf) - 1].adx), <<1, 2>>)
BreakoutCase == rdf[Len(rdf)].adx # NaN /\ RGt(Rat(20), rdf[Len(rdf)].adx) /\ RisingAdx
SqueezeCase == rta.bbw # NaN /\ RGt(Rat(5), rta.bbw)
Returned == rcur # None /\ rcur[1].raised = ""
WarningKind == IF rcur[1].warning = None THEN "none" ELSE rcur[1].warning[1]

\* C17: a summary that get_current_regime returns carries the squeeze
\* warning if the band width is below 5.0, else the breakout warning if the
\* last strength is below 20 and rose by more than 0.5, else none; its
\* regime is the label of the last bar.
C17_OneWarning ==
    Returned =>
        /\ WarningKind =
               IF SqueezeCase THEN "Volatility Squeeze (Bandwidth: %)"
               ELSE IF BreakoutCase THEN "Potential Breakout (ADX Rising from Low)"
               ELSE "none"
        /\ Len(rcur[1].warning) <= 2
        /\ rcur[1].regime = Last(rfirst[1]).regime
        /\ rcur[1].regime =
               Regime(rdf[Len(rdf)].close, rdf[Len(rdf)].sma_200, rdf[Len(rdf)].adx)

\* both warnings apply and the squeeze is the one returned
C17_Witness ==
    /\ Returned /\ BreakoutCase /\ SqueezeCase
    /\ rcur[1].warning = <<"Volatility Squeeze (Bandwidth: %)", Rat(4)>>
    /\ rcur[1].regime = "Sideways"

\* C18 (as claimed): get_current_regime never raises for lack of history.
C18_AsClaimed ==
    rcur # None => rcur[1].raised = ""

\* -------------------------------------------------- claims on construction
\* C19 (as claimed): no engine runs with a commission outside [0, 1), and no
\* strategy object exists with a zero or negative window length.
C19_AsClaimed ==
    /\ pc = "done" => ~RGt(Rat(0), commission) /\ RGt(Rat(1), commission)
    /\ sstrategy # None =>
           sstrategy[1].fast_period > 0 /\ sstrategy[1].slow_period > 0

\* ------------------------------------------ claims on crossover strategies
SignalsReturned == sout # None /\ sout[1].raised = ""
Out == sout[1].rows
BothDefined(k) == Out[k].fast # NaN /\ Out[k].slow # NaN

\* fast goes from <= slow on bar k - 1 to > slow on bar k
CrossUp(k) ==
    /\ k > 1 /\ BothDefined(k) /\ BothDefined(k - 1)
    /\ RGt(Out[k].fast, Out[k].slow)
    /\ ~RGt(Out[k - 1].fast, Out[k - 1].slow)

\* fast goes from >= slow on bar k - 1 to < slow on bar k
CrossDown(k) ==
    /\ k > 1 /\ BothDefined(k) /\ BothDefined(k - 1)
    /\ RGt(Out[k].slow, Out[k].fast)
    /\ ~RGt(Out[k - 1].slow, Out[k - 1].fast)

\* C20: in the frame a crossover strategy returns, bar k carries Buy exactly
\* when fast crosses above slow on k, Sell exactly when it crosses below,
\* None otherwise; no two adjacent bars carry the same non-zero signal; and
\* when fast crosses above slow on exactly one bar, that bar carries the
\* only Buy.
C20_CrossoverEvents ==
    SignalsReturned =>
        /\ Len(Out) = Len(sdf)
        /\ \A k \in 1..Len(Out) :
              /\ Out[k].signal = 1 <=> CrossUp(k)
              /\ Out[k].signal = -1 <=> CrossDown(k)
              /\ Out[k].signal = 0 <=> ~CrossUp(k) /\ ~CrossDown(k)
        /\ \A k \in 1..(Len(Out) - 1) :
              Out[k].signal # 0 => Out[k + 1].signal # Out[k].signal
        /\ \A k \in 1..Len(Out) :
              {j \in 1..Len(Out) : CrossUp(j)} = {k} =>
                  {j \in 1..Len(Out) : Out[j].signal = 1} = {k}

\* fast touches slow on bar 2, is above it on bars 3 and 4: one Buy, on bar 3
C20_Witness ==
    /\ SignalsReturned /\ Len(Out) = 4
    /\ sstrategy[1].name = "EMA Crossover"
    /\ Out[2].fast = Out[2].slow
    /\ RGt(Out[3].fast, Out[3].slow) /\ RGt(Out[4].fast, Out[4].slow)
    /\ Out[3].signal = 1 /\ Out[4].signal = 0

\* ------------------------------------------- further claims on the engine
IsBuyAndHold == strategy.name = "Buy & Hold (Benchmark)"

\* C25: Buy-and-Hold gives every bar a Buy; the engine run on it is Flat
\* before the first bar of the window, Long with the entry of that first bar
\* after every bar, and ends with one record: entry at the first window
\* bar, exit at the last window bar, tagged as a forced close.
C25_BuyAndHoldOneTrade ==
    IsBuyAndHold =>
        /\ \A k \in 1..Len(df) : SignalOf(k) = 1
        /\ pc = "loop" /\ row = 1 => position = 0 /\ trades = <<>>
        /\ pc = "loop" /\ row > 1 =>
               /\ position = 1 /\ trades = <<>>
               /\ entry_time = <<WindowBars[1].time>>
               /\ entry_price = WindowBars[1].close
        /\ pc = "done" /\ WindowBars # <<>> =>
               /\ Len(trades) = 1
               /\ trades[1].entry_time = <<WindowBars[1].time>>
               /\ trades[1].entry_price = WindowBars[1].close
               /\ trades[1].exit_time = Last(WindowBars).time
               /\ trades[1].exit_price = Last(WindowBars).close
               /\ IsForceClose(trades[1])

\* Buy-and-Hold over a window of two bars that starts after the first bar
C25_Witness ==
    /\ IsBuyAndHold /\ pc = "done" /\ start_date = <<2>>
    /\ Len(WindowBars) = 2 /\ Len(trades) = 1
    /\ trades[1].entry_price # trades[1].exit_price
    /\ df[1].close # df[2].close

\* initial_capital * (1 + r1) * ... * (1 + rk) over the first k records
RECURSIVE LedgerCapital(_)
LedgerCapital(k) ==
    IF k = 0 THEN initial_capital
    ELSE RMul(LedgerCapital(k - 1), RAdd(Rat(1), trades[k].return))

\* C26: during and after run() the capital is initial_capital times the
\* product of (1 + return) over the records of the ledger, in order
\* (initial_capital for an empty ledger); a bar that appends no record
\* leaves the capital as it is.
C26_CapitalFromLedger ==
    /\ [](pc \in {"loop", "done"} => current_capital = LedgerCapital(Len(trades)))
    /\ [][BarStep /\ trades' = trades => current_capital' = current_capital]_vars

\* a finished run with two records of non-zero return
C26_Witness ==
    /\ pc = "done" /\ Len(trades) = 2
    /\ trades[1].return # Rat(0) /\ trades[2].return # Rat(0)
    /\ current_capital # initial_capital

\* the number of Buys among the first r bars that opened a position
RECURSIVE Openings(_)
Openings(r) ==
    IF r = 0 THEN 0
    ELSE Openings(r - 1) +
         (IF df_signals[r].signal = 1 /\ Replay(r - 1).position = 0 THEN 1 ELSE 0)

\* the records are in time order and do not overlap
LedgerOrdered ==
    /\ \A k \in 1..Len(trades) :
          trades[k].entry_time # None /\ trades[k].entry_time[1] <= trades[k].exit_time
    /\ \A k \in 2..Len(trades) :
          trades[k].entry_time[1] > trades[k - 1].exit_time

\* C27: within a run the ledger only grows, by one record at a Sell processed
\* while Long or at the forced close; the records are ordered in time and do
\* not overlap; the Buys that opened a position so far outnumber the records
\* by 1 while Long and by 0 while Flat (and by 0 once the run has ended).
C27_LedgerAppendOnly ==
    /\ [][pc = "loop" =>
            \/ trades' = trades
            \/ /\ Len(trades') = Len(trades) + 1
               /\ SubSeq(trades', 1, Len(trades)) = trades
               /\ position = 1
               /\ \/ BarStep /\ ThisBar.signal = -1
                  \/ pc' = "done" /\ IsForceClose(Last(trades'))]_vars
    /\ [](pc \in {"loop", "done"} => LedgerOrdered)
    /\ [](pc = "loop" =>
            /\ position \in {0, 1}
            /\ Openings(row - 1) - Len(trades) = position)
    /\ [](pc = "done" => Openings(Len(df_signals)) = Len(trades))

\* Buy, Sell, Buy: one closed trade and a forced close on the entry bar
C27_Witness ==
    /\ pc = "done" /\ Len(trades) = 2
    /\ ~IsForceClose(trades[1]) /\ IsForceClose(trades[2])
    /\ trades[2].entry_time = <<trades[2].exit_time>>
    /\ trades[1].exit_time < trades[2].exit_time

\* C29: run() is Flat before the first bar of the window whatever the
\* strategy signalled earlier; every record's entry and exit timestamps lie
\* in [start_date, end_date]; while no Buy was processed in the window the
\* ledger is empty.
C29_FlatAtWindowStart ==
    /\ pc = "loop" /\ row = 1 => position = 0 /\ trades = <<>>
    /\ pc \in {"loop", "done"} =>
           /\ \A k \in 1..Len(trades) :
                 /\ InWindow(trades[k].entry_time[1])
                 /\ InWindow(trades[k].exit_time)
           /\ (\A j \in 1..Len(df_signals) :
                   j < row \/ pc = "done" => df_signals[j].signal # 1) =>
                 trades = <<>>

\* a Buy before start_date and a Sell on the first bar of the window: no trade
C29_Witness ==
    /\ pc = "done" /\ start_date = <<2>> /\ Len(df) = 3
    /\ SignalOf(1) = 1 /\ SignalOf(2) = -1 /\ SignalOf(3) = 0
    /\ trades = <<>> /\ results[1].num_trades = 0

\* ------------------------------------------- claims on the other strategies
VariantIs(name) == sstrategy # None /\ sstrategy[1].name = name
Below(x, t) == x # NaN /\ RGt(Rat(t), x)
Above(x, t) == x # NaN /\ RGt(x, Rat(t))

\* C21 (as claimed): Buy on every bar whose oscillator is below
\* buy_threshold, Sell on every bar whose oscillator is above sell_threshold,
\* None on every other bar.
C21_AsClaimed ==
    VariantIs("RSI Reversion") /\ SignalsReturned =>
        \A k \in 1..Len(Out) :
            LET buy == Below(Out[k].rsi, sstrategy[1].buy_threshold)
                sell == Above(Out[k].rsi, sstrategy[1].sell_threshold)
            IN  /\ buy => Out[k].signal = 1
                /\ sell => Out[k].signal = -1
                /\ ~buy /\ ~sell => Out[k].signal = 0

\* C21 (amended): Sell on every bar whose oscillator is above
\* sell_threshold, Buy on every bar whose oscillator is below buy_threshold
\* and not above sell_threshold, None on every other bar.
C21_LevelSignals ==
    VariantIs("RSI Reversion") /\ SignalsReturned =>
        /\ Len(Out) = Len(sdf)
        /\ \A k \in 1..Len(Out) :
              LET buy == Below(Out[k].rsi, sstrategy[1].buy_threshold)
                  sell == Above(Out[k].rsi, sstrategy[1].sell_threshold)
              IN  Out[k].signal = IF sell THEN -1 ELSE IF buy THEN 1 ELSE 0

\* thresholds 30/70: two bars in a row below 30 both carry Buy, the bar at
\* exactly 30 carries nothing
C21_Witness ==
    /\ VariantIs("RSI Reversion") /\ SignalsReturned /\ Len(Out) = 3
    /\ sstrategy[1].buy_threshold = 30 /\ sstrategy[1].period = 1
    /\ Out[2].rsi = Rat(20) /\ Out[2].signal = 1
    /\ Out[3].rsi = Rat(20) /\ Out[3].signal = 1

\* the whole history has one price
FlatSeries == \A k \in 1..Len(sdf) : sdf[k].close = sdf[1].close

Before(k) == (k - sstrategy[1].length)..(k - 1)

\* C23: bar k carries Buy when its close exceeds the highest high of the N
\* bars ending at k - 1, Sell when its close is below the lowest low of
\* those bars, None otherwise (also while fewer than N bars precede k).
C23_ChannelBreakout ==
    VariantIs("Donchian Breakout") /\ SignalsReturned =>
        /\ Len(Out) = Len(sdf)
        /\ \A k \in 1..Len(Out) :
              LET full == k - sstrategy[1].length >= 1
                  up == full /\ \A j \in Before(k) : sdf[k].close > sdf[j].high
                  down == full /\ \A j \in Before(k) : sdf[k].close < sdf[j].low
              IN  Out[k].signal = IF up THEN 1 ELSE IF down THEN -1 ELSE 0

\* N = 2: bar 3 closes above the two highs before it but not above its own
\* high; bar 2 has only one bar before it
C23_Witness ==
    /\ VariantIs("Donchian Breakout") /\ SignalsReturned /\ Len(Out) = 3
    /\ sstrategy[1].length = 2
    /\ sdf[3].close > sdf[1].high /\ sdf[3].close > sdf[2].high
    /\ sdf[3].close < sdf[3].high
    /\ Out[2].signal = 0 /\ Out[3].signal = 1

\* an indicator value the rule of the strategy reads on bar k is undefined
ReadsUndefined(k) ==
    LET name == sstrategy[1].name
    IN  IF name \in {"SMA Crossover", "EMA Crossover"}
        THEN k = 1 \/ ~BothDefined(k) \/ ~BothDefined(k - 1)
        ELSE IF name = "RSI Reversion" THEN Out[k].rsi = NaN
        ELSE IF name = "Bollinger"
        THEN \/ Out[k].lower = NaN \/ Out[k].upper = NaN
             \/ sstrategy[1].use_rsi /\ Out[k].rsi = NaN
        ELSE IF name = "SuperTrend"
        THEN k = 1 \/ Out[k].direction = NaN \/ Out[k - 1].direction = NaN
        ELSE k = 1 \/ Out[k - 1].upper = NaN \/ Out[k - 1].lower = NaN

\* C24 (as claimed): generate_signals of every variant returns, and a bar on
\* which an indicator value the rule reads is undefined carries None.
C24_AsClaimed ==
    sout # None =>
        /\ sout[1].raised = ""
        /\ \A k \in 1..Len(Out) : ReadsUndefined(k) => Out[k].signal = 0

AssetStep ==
    apc = "assets" /\ asset <= Len(MONITORED_ASSETS) /\ asset' = asset + 1

\* the action last recorded for the asset (None: never checked)
Recorded(actions, name) ==
    IF name \in DOMAIN actions THEN actions[name] ELSE None

\* C30: in the market check, for each asset whose status was obtained, a
\* change alert goes to send_telegram_message iff the computed action
\* differs from the one recorded for the asset (always at its first check),
\* and the recorded action becomes the new one; nothing else sends a change
\* alert or changes a record, and an alert never repeats the action of the
\* asset's previous alert.
C30_ChangeAlerts ==
    /\ [][AssetStep /\ status' # None =>
            LET name == MONITORED_ASSETS[asset]
                action == status'[1].action
            IN /\ status'[1].name = name
               /\ (alert' # None) <=> (Recorded(last_actions, name) # <<action>>)
               /\ alert' # None =>
                     alert'[1].name = name /\ alert'[1].action = action
               /\ Recorded(last_actions', name) = <<action>>
               /\ \A n \in DOMAIN announced \ {name} :
                     Recorded(last_actions', n) = Recorded(last_actions, n)]_vars
    /\ [][~(AssetStep /\ status' # None) =>
            alert' = None /\ last_actions' = last_actions]_vars
    /\ [][alert' # None =>
            announced[alert'[1].name] # <<alert'[1].action>>]_vars

\* a later check found the second asset's action unchanged and sent nothing,
\* after alerts had announced both it and a change of the first asset
C30_Witness ==
    /\ iterations >= 2
    /\ apc = "assets" /\ asset = 3
    /\ status # None /\ alert = None
    /\ status[1].action = "HOLD"
    /\ announced["Risky Norris"] = <<"HOLD">>
    /\ announced["Bitcoin"] = <<"SELL">>
    /\ last_actions["Bitcoin"] = <<"SELL">>

====
